---- MODULE Spec2Model ----
(***************************************************************************)
(* State-machine model of class tetris (the engine with the invisible      *)
(* buffer lines and the table-driven Nintendo rotation system).            *)
(*                                                                         *)
(* The grid is board_[row][col] with row 0 at the top; a cell holds 0      *)
(* (empty) or a colour tag.  The driver loop alternates tick() with at     *)
(* most one key command.  Random draws are nondeterministic choices.       *)
(***************************************************************************)
EXTENDS Integers, Sequences, FiniteSets

VARIABLES height_, width_, board_, curr_piece_, tick_cnt_, prev_shape_,
          score_, pc, spawned, last

vars == <<height_, width_, board_, curr_piece_, tick_cnt_, prev_shape_,
          score_, pc, spawned, last>>

(***************************************************************************)
(* Bounds of the model.                                                    *)
(***************************************************************************)
\* constructor arguments height and width range over 1..MaxHeight, 1..MaxWidth
MaxHeight == 3
MaxWidth == 4
\* colours drawn at a spawn are 1..MaxColor (the program draws from 1..7)
MaxColor == 1
\* number of pieces spawned in one game
MaxPieces == 3
\* ticks per second, scaled down from the program's 100
tick_times_ == 6

(***************************************************************************)
(* Program constants.                                                      *)
(***************************************************************************)
invisible_lines_ == 2
\* move_intervals_ = 0.5 as the fraction move_intervals_num_ / move_intervals_den_
move_intervals_num_ == 1
move_intervals_den_ == 2
\* the program's own ticks per second
default_tick_times_ == 100

floor_ticks(tt) == (tt * move_intervals_num_) \div move_intervals_den_

move_ticks_ == floor_ticks(tick_times_)

B(yy, xx) == [y |-> yy, x |-> xx]

\* shapes_[kind + 1][rotation + 1] is the sequence of blocks of a rotation state
shapes_ ==
  << << <<B(0,-2), B(0,-1), B(0,0), B(0,1)>>,
        <<B(-2,0), B(-1,0), B(0,0), B(1,0)>> >>,
     << <<B(0,0), B(0,1), B(1,0), B(1,1)>> >>,
     << <<B(1,1), B(0,1), B(0,0), B(0,-1)>>,
        <<B(1,-1), B(1,0), B(0,0), B(-1,0)>>,
        <<B(-1,-1), B(0,-1), B(0,0), B(0,1)>>,
        <<B(-1,1), B(-1,0), B(0,0), B(1,0)>> >>,
     << <<B(1,-1), B(0,-1), B(0,0), B(0,1)>>,
        <<B(-1,-1), B(-1,0), B(0,0), B(1,0)>>,
        <<B(-1,1), B(0,1), B(0,0), B(0,-1)>>,
        <<B(1,1), B(1,0), B(0,0), B(-1,0)>> >>,
     << <<B(-1,0), B(0,0), B(0,1), B(1,1)>>,
        <<B(0,1), B(0,0), B(1,0), B(1,-1)>> >>,
     << <<B(-1,1), B(0,1), B(0,0), B(1,0)>>,
        <<B(1,1), B(1,0), B(0,0), B(0,-1)>> >>,
     << <<B(0,0), B(-1,0), B(0,-1), B(0,1)>>,
        <<B(0,0), B(-1,0), B(1,0), B(0,1)>>,
        <<B(0,0), B(0,-1), B(1,0), B(0,1)>>,
        <<B(0,0), B(0,-1), B(1,0), B(-1,0)>> >> >>

n_shapes_ == Len(shapes_)

n_rot_of(shape) == Len(shapes_[shape + 1])

board_height_of(h) == h + invisible_lines_

board_height_ == board_height_of(height_)

SetMin(S) == CHOOSE m \in S : \A n \in S : m <= n

SetMax(S) == CHOOSE m \in S : \A n \in S : m >= n

(***************************************************************************)
(* struct block and struct piece.                                          *)
(***************************************************************************)
block_plus(a, b) == B(a.y + b.y, a.x + b.x)

get_shape(p) == shapes_[p.shape + 1][p.rotation + 1]

\* get_rotated that always steps to the next rotation state
get_rotated_cwonly(p, ccw) ==
  LET rot == p.rotation + 1
      n_rot == n_rot_of(p.shape)
  IN (rot + n_rot) % n_rot

get_rotated(p, ccw) ==
  LET rot == IF ccw THEN p.rotation - 1 ELSE p.rotation + 1
      n_rot == n_rot_of(p.shape)
  IN (rot + n_rot) % n_rot

get_rotated_shape(p, ccw) == shapes_[p.shape + 1][get_rotated(p, ccw) + 1]

piece_rotate(p, ccw) == [p EXCEPT !.rotation = get_rotated(p, ccw)]

get_extent(p) ==
  LET shape == get_shape(p)
      ys == {shape[i].y : i \in 1..Len(shape)}
      xs == {shape[i].x : i \in 1..Len(shape)}
  IN [y_min |-> SetMin(ys), y_max |-> SetMax(ys),
      x_min |-> SetMin(xs), x_max |-> SetMax(xs)]

\* the absolute positions of the blocks of the piece
piece_cells(p) ==
  LET shape == get_shape(p)
  IN {block_plus(p.location, shape[i]) : i \in 1..Len(shape)}

(***************************************************************************)
(* Grid access.                                                            *)
(***************************************************************************)
Rows(b) == DOMAIN b

Cols(b) == DOMAIN b[0]

empty_board(h, w) == [r \in 0..(board_height_of(h) - 1) |-> [c \in 0..(w - 1) |-> 0]]

check_boundary(b, blk, dy, dx) ==
  LET yy == blk.y + dy
      xx == blk.x + dx
  IN 0 <= yy /\ yy < Cardinality(Rows(b)) /\ 0 <= xx /\ xx < Cardinality(Cols(b))

\* board_[b.y + y][b.x + x].  The program does not check the position, and an
\* access outside the grid is undefined behaviour: the builds give the value 0
\* for a column next to the grid and kill the process (SIGSEGV) for a row
\* outside it, and any other word of memory can be read as well.  The result
\* is therefore the set of outcomes of the access: values holds the values it
\* can yield, killed tells whether it can end the process.  Inside the grid
\* the outcome is the cell.  The tests of the program compare the value with 0
\* only, so 0 and the non-zero tags stand for every value read.
undef_cell == [values |-> 0..7, killed |-> TRUE]

board_cell(b, blk, dy, dx) ==
  IF check_boundary(b, blk, dy, dx)
    THEN [values |-> {b[blk.y + dy][blk.x + dx]}, killed |-> FALSE]
    ELSE undef_cell

\* writes color into every cell of the piece
update_piece(b, p, color) ==
  LET cells == piece_cells(p)
  IN [r \in Rows(b) |-> [c \in Cols(b) |->
        IF B(r, c) \in cells THEN color ELSE b[r][c]]]

clear_line(b, yy) == [b EXCEPT ![yy] = [c \in Cols(b) |-> 0]]

(***************************************************************************)
(* Moves and rotations.  can_move and can_rotate erase the piece from the  *)
(* grid, test the target cells and stamp the piece back; their result is   *)
(* the answer together with the grid they leave behind.                    *)
(***************************************************************************)
\* can_move without the final update_piece(curr_piece_.color)
can_move_norestore(b, p, dy, dx) ==
  LET erased == update_piece(b, p, 0)
      shape == get_shape(p)
      movable == \A i \in 1..Len(shape) :
                   LET block_loc == block_plus(p.location, shape[i])
                   IN /\ check_boundary(erased, block_loc, dy, dx)
                      /\ board_cell(erased, block_loc, dy, dx).values = {0}
  IN [movable |-> movable, board |-> erased]

\* can_move that does not erase the piece before the test
can_move_noerase(b, p, dy, dx) ==
  LET shape == get_shape(p)
      movable == \A i \in 1..Len(shape) :
                   LET block_loc == block_plus(p.location, shape[i])
                   IN /\ check_boundary(b, block_loc, dy, dx)
                      /\ board_cell(b, block_loc, dy, dx).values = {0}
  IN [movable |-> movable, board |-> b]

\* can_move that takes a cell outside the grid for an empty one
can_move_nobound(b, p, dy, dx) ==
  LET erased == update_piece(b, p, 0)
      shape == get_shape(p)
      movable == \A i \in 1..Len(shape) :
                   LET block_loc == block_plus(p.location, shape[i])
                   IN 0 \in board_cell(erased, block_loc, dy, dx).values
  IN [movable |-> movable, board |-> update_piece(erased, p, p.color)]

can_move(b, p, dy, dx) ==
  LET erased == update_piece(b, p, 0)
      shape == get_shape(p)
      movable == \A i \in 1..Len(shape) :
                   LET block_loc == block_plus(p.location, shape[i])
                   IN /\ check_boundary(erased, block_loc, dy, dx)
                      /\ board_cell(erased, block_loc, dy, dx).values = {0}
  IN [movable |-> movable, board |-> update_piece(erased, p, p.color)]

\* move_piece without the update_piece(0) before the piece is moved
move_piece_noerase(b, p, dy, dx) ==
  LET cm == can_move(b, p, dy, dx)
      moved == [p EXCEPT !.location = B(p.location.y + dy, p.location.x + dx)]
  IN IF ~cm.movable
       THEN [ok |-> FALSE, board |-> cm.board, piece |-> p]
       ELSE [ok |-> TRUE, board |-> update_piece(cm.board, moved, moved.color),
             piece |-> moved]

move_piece(b, p, dy, dx) ==
  LET cm == can_move(b, p, dy, dx)
      moved == [p EXCEPT !.location = B(p.location.y + dy, p.location.x + dx)]
  IN IF ~cm.movable
       THEN [ok |-> FALSE, board |-> cm.board, piece |-> p]
       ELSE [ok |-> TRUE,
             board |-> update_piece(update_piece(cm.board, p, 0), moved, moved.color),
             piece |-> moved]

\* can_rotate that does not erase the piece before the test
can_rotate_noerase(b, p, ccw) ==
  LET shape == get_rotated_shape(p, ccw)
      rotatable == \A i \in 1..Len(shape) :
                     LET block_loc == block_plus(p.location, shape[i])
                     IN /\ check_boundary(b, block_loc, 0, 0)
                        /\ board_cell(b, block_loc, 0, 0).values = {0}
  IN [rotatable |-> rotatable, board |-> b]

can_rotate(b, p, ccw) ==
  LET erased == update_piece(b, p, 0)
      shape == get_rotated_shape(p, ccw)
      rotatable == \A i \in 1..Len(shape) :
                     LET block_loc == block_plus(p.location, shape[i])
                     IN /\ check_boundary(erased, block_loc, 0, 0)
                        /\ board_cell(erased, block_loc, 0, 0).values = {0}
  IN [rotatable |-> rotatable, board |-> update_piece(erased, p, p.color)]

\* rotate_piece without the final update_piece(curr_piece_.color)
rotate_piece_nostamp(b, p, ccw) ==
  LET cr == can_rotate(b, p, ccw)
      rotated == piece_rotate(p, ccw)
  IN IF ~cr.rotatable
       THEN [ok |-> FALSE, board |-> cr.board, piece |-> p]
       ELSE [ok |-> TRUE, board |-> update_piece(cr.board, p, 0), piece |-> rotated]

rotate_piece(b, p, ccw) ==
  LET cr == can_rotate(b, p, ccw)
      rotated == piece_rotate(p, ccw)
  IN IF ~cr.rotatable
       THEN [ok |-> FALSE, board |-> cr.board, piece |-> p]
       ELSE [ok |-> TRUE,
             board |-> update_piece(update_piece(cr.board, p, 0), rotated, rotated.color),
             piece |-> rotated]

\* the 's' command: while (move_piece()) ;
RECURSIVE hard_drop(_, _, _)
\* one turn of the loop that leaves the loop after the first successful move
drop_next_once(r, n) ==
  IF r.ok THEN [board |-> r.board, piece |-> r.piece, steps |-> n + 1]
          ELSE [board |-> r.board, piece |-> r.piece, steps |-> n]

\* one turn of the loop: r is what move_piece() returned, n the moves made before
drop_next(r, n) ==
  IF r.ok THEN hard_drop(r.board, r.piece, n + 1)
          ELSE [board |-> r.board, piece |-> r.piece, steps |-> n]

hard_drop(b, p, n) == drop_next(move_piece(b, p, 1, 0), n)

(***************************************************************************)
(* Line clearing.                                                          *)
(***************************************************************************)
row_full(b, i) == \A c \in Cols(b) : b[i][c] # 0

lines_to_remove(b, p) ==
  LET ext == get_extent(p)
  IN {i \in (p.location.y + ext.y_min)..(p.location.y + ext.y_max) : row_full(b, i)}

\* the inner while loop: the nearest row above y that is neither removed nor moved
RECURSIVE find_from(_, _, _)
find_from(from, lines, moved) ==
  IF from >= 0 /\ (from \in lines \/ from \in moved)
    THEN find_from(from - 1, lines, moved)
    ELSE from

\* the for loop over y, from the lowest removed row up to invisible_lines_ + 1
RECURSIVE compact(_, _, _, _)
compact(b, moved, yy, lines) ==
  IF yy < invisible_lines_ + 1 THEN b
  ELSE LET from == find_from(yy - 1, lines, moved)
       IN IF from >= 0
            THEN compact([b EXCEPT ![yy] = b[from]], moved \cup {from}, yy - 1, lines)
            ELSE compact(clear_line(b, yy), moved, yy - 1, lines)

\* try_remove_line without the early return on an empty lines_to_remove
try_remove_line_noreturn(b, p, score) ==
  LET lines == lines_to_remove(b, p)
  IN [board |-> clear_line(IF lines = {} THEN b
                           ELSE compact(b, {}, SetMax(lines), lines), invisible_lines_),
      score |-> score + Cardinality(lines),
      lines |-> lines]

try_remove_line(b, p, score) ==
  LET lines == lines_to_remove(b, p)
  IN IF lines = {}
       THEN [board |-> b, score |-> score, lines |-> lines]
       ELSE [board |-> clear_line(compact(b, {}, SetMax(lines), lines), invisible_lines_),
             score |-> score + Cardinality(lines),
             lines |-> lines]

(***************************************************************************)
(* Spawning.                                                               *)
(***************************************************************************)
\* d1 is the draw of shape_d1, d2 the draw of shape_d2 (used on a reroll)
random_shape(prev, d1, d2) == IF d1 = n_shapes_ \/ d1 = prev THEN d2 ELSE d1

\* x_draws with x_max = width_ - ext.x_max
x_draws_wide(shape, rotation, w) ==
  LET ext == get_extent([shape |-> shape, rotation |-> rotation])
  IN (-ext.x_min)..(w - ext.x_max)

\* the values x_d(x_min, x_max) can return for a piece of this shape and rotation
x_draws(shape, rotation, w) ==
  LET ext == get_extent([shape |-> shape, rotation |-> rotation])
  IN (-ext.x_min)..(w - ext.x_max - 1)

\* new_piece without the overlap test
new_piece_nocheck(b, p, shape, color, rotation, xx) ==
  LET p1 == [p EXCEPT !.shape = shape, !.color = color, !.rotation = rotation]
      ext == get_extent(p1)
      x_min == -ext.x_min
      x_max == Cardinality(Cols(b)) - ext.x_max - 1
      yy == invisible_lines_ - ext.y_min
      p2 == [p1 EXCEPT !.location = B(yy, xx)]
  IN IF x_min > x_max \/ yy + ext.y_max >= Cardinality(Rows(b))
       THEN [status |-> "error", board |-> b, piece |-> p1]
       ELSE [status |-> "ok", board |-> update_piece(b, p2, p2.color), piece |-> p2]

\* new_piece that stamps the piece before the overlap test
new_piece_stampfirst(b, p, shape, color, rotation, xx) ==
  LET p1 == [p EXCEPT !.shape = shape, !.color = color, !.rotation = rotation]
      ext == get_extent(p1)
      x_min == -ext.x_min
      x_max == Cardinality(Cols(b)) - ext.x_max - 1
      yy == invisible_lines_ - ext.y_min
      p2 == [p1 EXCEPT !.location = B(yy, xx)]
      cells == get_shape(p2)
  IN IF x_min > x_max \/ yy + ext.y_max >= Cardinality(Rows(b))
       THEN [status |-> "error", board |-> b, piece |-> p1]
       ELSE IF \E i \in 1..Len(cells) :
                 board_cell(b, block_plus(p2.location, cells[i]), 0, 0).values # {0}
         THEN [status |-> "gameover", board |-> update_piece(b, p2, p2.color), piece |-> p2]
         ELSE [status |-> "ok", board |-> update_piece(b, p2, p2.color), piece |-> p2]

\* shape, color, rotation and xx are the random draws; xx is not used when the
\* piece does not fit ("space too small")
\* (xx is a value of x_d, so every cell the overlap test reads is inside the grid)
new_piece(b, p, shape, color, rotation, xx) ==
  LET p1 == [p EXCEPT !.shape = shape, !.color = color, !.rotation = rotation]
      ext == get_extent(p1)
      x_min == -ext.x_min
      x_max == Cardinality(Cols(b)) - ext.x_max - 1
      yy == invisible_lines_ - ext.y_min
      p2 == [p1 EXCEPT !.location = B(yy, xx)]
      cells == get_shape(p2)
  IN IF x_min > x_max \/ yy + ext.y_max >= Cardinality(Rows(b))
       THEN [status |-> "error", board |-> b, piece |-> p1]
       ELSE IF \E i \in 1..Len(cells) :
                 board_cell(b, block_plus(p2.location, cells[i]), 0, 0).values # {0}
         THEN [status |-> "gameover", board |-> b, piece |-> p2]
         ELSE [status |-> "ok", board |-> update_piece(b, p2, p2.color), piece |-> p2]

\* the kinds random_shape() can return after prev
shape_draws(prev) ==
  {random_shape(prev, d1, d2) : d1 \in 0..n_shapes_, d2 \in 0..(n_shapes_ - 1)}

\* every outcome new_piece can have on grid b, over all random draws
spawn_results(b, p, prev) ==
  UNION { UNION { UNION {
    LET xs == x_draws(shape, rot, Cardinality(Cols(b)))
    IN { new_piece(b, p, shape, color, rot, xx) : xx \in IF xs = {} THEN {0} ELSE xs }
    : rot \in 0..(n_rot_of(shape) - 1) }
    : color \in 1..MaxColor }
    : shape \in shape_draws(prev) }

pc_after(status) ==
  CASE status = "ok" -> "cmd"
    [] status = "gameover" -> "gameover"
    [] status = "error" -> "error"

(***************************************************************************)
(* The record of the operation executed last (history, not program state). *)
(*   op        the operation                                               *)
(*   ok        the value the move or rotation returned                     *)
(*   board, piece, score, tick   the state when the operation started      *)
(*   landed    the grid when the line-clear evaluation started, if one ran *)
(*   lines     the rows removed by the line-clear evaluation, if one ran   *)
(*   mid, mid_score   the grid and the score when the spawn started, if    *)
(*             one ran                                                     *)
(*   spawned   the number of spawns before the operation                   *)
(*   steps     the successful downward moves of a hard drop                *)
(***************************************************************************)
event(op, ok, landed, lines, mid, mid_score, steps) ==
  [op |-> op, ok |-> ok, board |-> board_, piece |-> curr_piece_,
   score |-> score_, tick |-> tick_cnt_, spawned |-> spawned,
   landed |-> landed, lines |-> lines, mid |-> mid, mid_score |-> mid_score,
   steps |-> steps]

(***************************************************************************)
(* Initial state: the members as initialised by the constructor before its *)
(* body runs.  curr_piece_ is not initialised there; nothing reads it      *)
(* before new_piece assigns it, so a fixed placeholder stands for it.      *)
(***************************************************************************)
Init ==
  /\ height_ \in 1..MaxHeight
  /\ width_ \in 1..MaxWidth
  /\ board_ = empty_board(height_, width_)
  /\ curr_piece_ = [shape |-> 0, location |-> B(0, 0), rotation |-> 0, color |-> 0]
  /\ tick_cnt_ = 0
  /\ prev_shape_ = -1
  /\ score_ = 0
  /\ pc = "construct"
  /\ spawned = 0
  /\ last = [op |-> "none", ok |-> TRUE, board |-> board_, piece |-> curr_piece_,
             score |-> 0, tick |-> 0, spawned |-> 0, landed |-> board_, lines |-> {},
             mid |-> board_, mid_score |-> 0, steps |-> 0]

\* the constructor body: new_piece()
Construct ==
  /\ pc = "construct"
  /\ \E r \in spawn_results(board_, curr_piece_, prev_shape_) :
       /\ board_' = r.board
       /\ curr_piece_' = r.piece
       /\ prev_shape_' = r.piece.shape
       /\ pc' = IF r.status = "ok" THEN "tick" ELSE pc_after(r.status)
       /\ spawned' = spawned + 1
       /\ last' = event("construct", r.status = "ok", board_, {}, board_, score_, 0)
  /\ UNCHANGED <<height_, width_, tick_cnt_, score_>>

\* the test with > in place of >=
tick_due_gt(cnt) == cnt > move_ticks_

\* the test of tick() on the incremented counter
tick_due(cnt) == cnt >= move_ticks_

\* tick() below the threshold
TickWait ==
  /\ pc = "tick"
  /\ ~tick_due(tick_cnt_ + 1)
  /\ tick_cnt_' = tick_cnt_ + 1
  /\ pc' = "cmd"
  /\ last' = event("wait", TRUE, board_, {}, board_, score_, 0)
  /\ UNCHANGED <<height_, width_, board_, curr_piece_, prev_shape_, score_, spawned>>

\* tick() at the threshold, the downward move succeeds
TickFall ==
  /\ pc = "tick"
  /\ tick_due(tick_cnt_ + 1)
  /\ LET r == move_piece(board_, curr_piece_, 1, 0)
     IN /\ r.ok
        /\ board_' = r.board
        /\ curr_piece_' = r.piece
  /\ tick_cnt_' = 0
  /\ pc' = "cmd"
  /\ last' = event("fall", TRUE, board_, {}, board_, score_, 0)
  /\ UNCHANGED <<height_, width_, prev_shape_, score_, spawned>>

\* tick() at the threshold, the downward move fails: try_remove_line(), new_piece()
TickLand ==
  /\ pc = "tick"
  /\ tick_due(tick_cnt_ + 1)
  /\ spawned < MaxPieces
  /\ \E r \in {move_piece(board_, curr_piece_, 1, 0)} :
       /\ ~r.ok
       /\ \E c \in {try_remove_line(r.board, r.piece, score_)} :
            /\ score_' = c.score
            /\ \E n \in spawn_results(c.board, r.piece, prev_shape_) :
                 /\ board_' = n.board
                 /\ curr_piece_' = n.piece
                 /\ prev_shape_' = n.piece.shape
                 /\ pc' = pc_after(n.status)
                 /\ last' = event("land", FALSE, r.board, c.lines, c.board, c.score, 0)
  /\ tick_cnt_' = 0
  /\ spawned' = spawned + 1
  /\ UNCHANGED <<height_, width_>>

\* getch() returns ERR, or a key that is bound to nothing
NoKey ==
  /\ pc = "cmd"
  /\ pc' = "tick"
  /\ last' = event("nokey", TRUE, board_, {}, board_, score_, 0)
  /\ UNCHANGED <<height_, width_, board_, curr_piece_, tick_cnt_, prev_shape_,
                 score_, spawned>>

\* key 'w': rotate_piece()
KeyRotate ==
  /\ pc = "cmd"
  /\ LET r == rotate_piece(board_, curr_piece_, FALSE)
     IN /\ board_' = r.board
        /\ curr_piece_' = r.piece
        /\ last' = event("rotate", r.ok, board_, {}, board_, score_, 0)
  /\ pc' = "tick"
  /\ UNCHANGED <<height_, width_, tick_cnt_, prev_shape_, score_, spawned>>

\* key 'a': move_piece(0, -1)
KeyLeft ==
  /\ pc = "cmd"
  /\ LET r == move_piece(board_, curr_piece_, 0, -1)
     IN /\ board_' = r.board
        /\ curr_piece_' = r.piece
        /\ last' = event("left", r.ok, board_, {}, board_, score_, 0)
  /\ pc' = "tick"
  /\ UNCHANGED <<height_, width_, tick_cnt_, prev_shape_, score_, spawned>>

\* key 'd': move_piece(0, 1)
KeyRight ==
  /\ pc = "cmd"
  /\ LET r == move_piece(board_, curr_piece_, 0, 1)
     IN /\ board_' = r.board
        /\ curr_piece_' = r.piece
        /\ last' = event("right", r.ok, board_, {}, board_, score_, 0)
  /\ pc' = "tick"
  /\ UNCHANGED <<height_, width_, tick_cnt_, prev_shape_, score_, spawned>>

\* key 's': while (move_piece()) ; tick_cnt_ = 0
KeyDrop ==
  /\ pc = "cmd"
  /\ LET r == hard_drop(board_, curr_piece_, 0)
     IN /\ board_' = r.board
        /\ curr_piece_' = r.piece
        /\ last' = event("drop", FALSE, board_, {}, board_, score_, r.steps)
  /\ tick_cnt_' = 0
  /\ pc' = "tick"
  /\ UNCHANGED <<height_, width_, prev_shape_, score_, spawned>>

\* key 'q': leave the loop
KeyQuit ==
  /\ pc = "cmd"
  /\ pc' = "quit"
  /\ last' = event("quit", TRUE, board_, {}, board_, score_, 0)
  /\ UNCHANGED <<height_, width_, board_, curr_piece_, tick_cnt_, prev_shape_,
                 score_, spawned>>

Next ==
  \/ Construct
  \/ TickWait
  \/ TickFall
  \/ TickLand
  \/ NoKey
  \/ KeyRotate
  \/ KeyLeft
  \/ KeyRight
  \/ KeyDrop
  \/ KeyQuit

Spec == Init /\ [][Next]_vars

\* one call of tick()
Tick == TickWait \/ TickFall \/ TickLand

\* the rest of one turn of the loop: getch() and the command it returned
Command == NoKey \/ KeyRotate \/ KeyLeft \/ KeyRight \/ KeyDrop \/ KeyQuit

\* the loop keeps turning: tick() is called again after every command, and
\* getch() returns after every tick()
LiveSpec == Init /\ [][Next]_vars /\ WF_vars(Tick) /\ WF_vars(Command)

(***************************************************************************)
(* Properties.                                                             *)
(***************************************************************************)
Running == pc \in {"tick", "cmd"}

Deltas == {<<1, 0>>, <<0, -1>>, <<0, 1>>}

SameState(r) == r.board = board_ /\ r.piece = curr_piece_

\* C1: a move attempt (down, left, right) or a rotation attempt that returns
\* false leaves the grid, the active piece, the score and the tick counter as
\* they were before the call.
C1_FailedAttemptChangesNothing ==
  /\ (last.op \in {"left", "right", "rotate"} /\ ~last.ok) =>
       /\ board_ = last.board
       /\ curr_piece_ = last.piece
       /\ score_ = last.score
       /\ tick_cnt_ = last.tick
  /\ last.op = "land" => last.landed = last.board
  /\ Running =>
       /\ \A d \in Deltas :
            LET r == move_piece(board_, curr_piece_, d[1], d[2])
            IN ~r.ok => SameState(r)
       /\ \A ccw \in BOOLEAN :
            LET r == rotate_piece(board_, curr_piece_, ccw)
            IN ~r.ok => SameState(r)

\* a failed rotation and a failed sideways move have both been seen with
\* locked cells on the grid
C1_Witness ==
  /\ last.op \in {"left", "right", "rotate"}
  /\ ~last.ok
  /\ last.spawned >= 2
  /\ ~rotate_piece(board_, curr_piece_, FALSE).ok

\* the number of removed rows below row r
shift(R, r) == Cardinality({q \in R : q > r})

ZeroRow(b, r) == \A c \in Cols(b) : b[r][c] = 0

FullRows(b) == {r \in Rows(b) : row_full(b, r)}

\* some cell of piece p lies on a non-zero cell of grid b
Overlaps(b, p) == \E c \in piece_cells(p) : board_cell(b, c, 0, 0).values # {0}

Spawning == last.op \in {"construct", "land"}

\* C2: after the removal of a non-empty set R of full rows, every other row r
\* holds its old contents at row r + |{q in R : q > r}| and the |R| topmost
\* rows of the grid are zero.
C2_RowsRemovedAndCompacted ==
  (last.op = "land" /\ last.lines # {}) =>
    LET R == last.lines
        pre == last.landed
        post == last.mid
    IN /\ \A r \in Rows(pre) \ R : post[r + shift(R, r)] = pre[r]
       /\ \A r \in 0..(Cardinality(R) - 1) : ZeroRow(post, r)

\* C3: a hard drop moves the piece down until a downward move fails and then,
\* in the same command, evaluates line clears and spawns the next piece as a
\* failed gravity step does, leaving the tick counter at 0.
C3_HardDropLocksAndSpawns ==
  last.op = "drop" =>
    LET d == hard_drop(last.board, last.piece, 0)
        c == try_remove_line(d.board, d.piece, last.score)
    IN /\ tick_cnt_ = 0
       /\ score_ = c.score
       /\ spawned = last.spawned + 1
       /\ \E n \in spawn_results(c.board, d.piece, last.piece.shape) :
            board_ = n.board /\ curr_piece_ = n.piece

C4_Inv ==
  /\ pc = "gameover" => Spawning
  /\ (Spawning /\ pc # "error") => (pc = "gameover" <=> Overlaps(last.mid, curr_piece_))

\* C4: game-over is raised exactly when the freshly placed piece of a spawn
\* has a cell on a non-zero grid cell, only by a spawn, and no operation is
\* executed after it.
C4_GameOverOnlyFromSpawn == [] C4_Inv /\ [][pc # "gameover"]_vars

C4_Witness == pc = "gameover" /\ Overlaps(last.mid, curr_piece_) /\ last.op = "land"

\* C5: when a spawn ends in game-over the grid is the grid the spawn started
\* with and the score is unchanged.
C5_GameOverSpawnLeavesGrid ==
  pc = "gameover" => (board_ = last.mid /\ score_ = last.mid_score)

\* game-over right after a line-clear evaluation that removed a row
C5_Witness == pc = "gameover" /\ last.lines # {} /\ board_ = last.mid

\* C6: the score never decreases, changes only in a line-clear evaluation,
\* and grows there by the number of full rows removed from the grid.
C6_ScoreCountsRemovedRows ==
  /\ score_ >= last.score
  /\ last.op # "land" => score_ = last.score
  /\ last.op = "land" =>
       score_ - last.score =
         Cardinality(FullRows(last.landed)) - Cardinality(FullRows(last.mid))

\* C7: tick() makes the gravity step exactly when the incremented counter
\* reaches move_ticks_ (50 for the program's rates) and then sets the counter
\* to 0; otherwise it only increments the counter; the counter stays in
\* 0..move_ticks_ - 1 and the piece descends one row at most.
C7_TickGravity ==
  /\ floor_ticks(default_tick_times_) = 50
  /\ last.op = "wait" =>
       /\ last.tick + 1 # move_ticks_
       /\ tick_cnt_ = last.tick + 1
       /\ board_ = last.board /\ curr_piece_ = last.piece /\ score_ = last.score
  /\ last.op \in {"fall", "land"} => (last.tick + 1 = move_ticks_ /\ tick_cnt_ = 0)
  /\ last.op = "fall" =>
       curr_piece_ = [last.piece EXCEPT !.location = B(@.y + 1, @.x)]
  /\ last.op \in {"wait", "fall", "land"} => (0 <= tick_cnt_ /\ tick_cnt_ < move_ticks_)

C7_Witness ==
  /\ last.op = "fall"
  /\ last.tick = move_ticks_ - 1
  /\ curr_piece_.location.y = last.piece.location.y + 1
  /\ spawned >= 2

\* C8: a failed gravity step evaluates line clears and then spawns; the cells
\* of the landed piece outside the removed rows stay on the grid with its
\* colour (in place, or moved down by the removed rows below them), and moves
\* and rotations change no cell outside the active piece.
C8_LandedCellsStay ==
  /\ last.op = "land" =>
       \A c \in piece_cells(last.piece) :
         c.y \notin last.lines =>
           \/ last.mid[c.y + shift(last.lines, c.y)][c.x] = last.piece.color
           \/ last.mid[c.y][c.x] = last.piece.color
  /\ (last.op = "land" /\ pc = "cmd") =>
       board_ = update_piece(last.mid, curr_piece_, curr_piece_.color)
  /\ last.op \in {"left", "right", "rotate", "fall", "drop"} =>
       \A r \in Rows(board_) : \A c \in Cols(board_) :
         B(r, c) \notin (piece_cells(last.piece) \cup piece_cells(curr_piece_))
           => board_[r][c] = last.board[r][c]

\* C9: "space too small" is raised only by the spawn of the constructor.
C9_TooSmallOnlyAtConstruction == pc = "error" => last.op = "construct"

\* C10: after a spawn that raises no error every cell of the new piece has
\* its column in 0..width_ - 1.
C10_SpawnWithinColumns ==
  (Spawning /\ pc # "error") =>
    \A c \in piece_cells(curr_piece_) : 0 <= c.x /\ c.x < width_

\* a later spawn has put a piece against the right wall
C10_Witness ==
  /\ last.op = "land"
  /\ pc = "cmd"
  /\ \E c \in piece_cells(curr_piece_) : c.x = width_ - 1

\* C11: right after the line-clear evaluation that follows a landing no row
\* of the grid, buffer rows included, consists of non-zero cells only.
C11_NoFullRowAfterClear == last.op = "land" => FullRows(last.mid) = {}

InGrid(b, c) == c.y \in Rows(b) /\ c.x \in Cols(b)

\* every cell of the set lies inside grid b and is empty or a cell of piece p
FreeFor(b, p, cells) ==
  \A c \in cells : InGrid(b, c) /\ (b[c.y][c.x] = 0 \/ c \in piece_cells(p))

\* the cells of the rotation state next to that of p (clockwise table order,
\* or the previous one when ccw), at the anchor of p
TargetCells(p, ccw) ==
  LET n == Len(shapes_[p.shape + 1])
      k == IF ccw THEN (p.rotation + n - 1) % n ELSE (p.rotation + 1) % n
      t == shapes_[p.shape + 1][k + 1]
  IN {B(p.location.y + t[i].y, p.location.x + t[i].x) : i \in 1..Len(t)}

TargetRotation(p, ccw) ==
  LET n == Len(shapes_[p.shape + 1])
  IN IF ccw THEN (p.rotation + n - 1) % n ELSE (p.rotation + 1) % n

RotationAgrees(b, p, ccw, r) ==
  /\ r.ok <=> FreeFor(b, p, TargetCells(p, ccw))
  /\ r.ok => r.piece = [p EXCEPT !.rotation = TargetRotation(p, ccw)]
  /\ ~r.ok => r.piece = p

\* C12: a rotation attempt succeeds exactly when every cell of the target
\* rotation state at the unchanged anchor lies inside the grid and is empty or
\* one of the piece's own cells; no other anchor is tried, and on success only
\* the rotation state changes.
C12_RotationIffTargetFree ==
  /\ Running =>
       \A ccw \in BOOLEAN :
         RotationAgrees(board_, curr_piece_, ccw, rotate_piece(board_, curr_piece_, ccw))
  /\ last.op = "rotate" =>
       /\ last.ok <=> FreeFor(last.board, last.piece, TargetCells(last.piece, FALSE))
       /\ curr_piece_ = IF last.ok
                          THEN [last.piece EXCEPT !.rotation = TargetRotation(last.piece, FALSE)]
                          ELSE last.piece

\* a rotation that failed because the target state crosses the left wall
C12_Witness ==
  /\ last.op = "rotate"
  /\ ~last.ok
  /\ \E c \in TargetCells(last.piece, FALSE) : c.x < 0
  /\ curr_piece_ = last.piece

ShiftedCells(p, dy, dx) == {B(c.y + dy, c.x + dx) : c \in piece_cells(p)}

ShiftedPiece(p, dy, dx) == [p EXCEPT !.location = B(@.y + dy, @.x + dx)]

MoveAgrees(b, p, dy, dx, r) ==
  /\ r.ok <=> FreeFor(b, p, ShiftedCells(p, dy, dx))
  /\ r.piece = IF r.ok THEN ShiftedPiece(p, dy, dx) ELSE p

DeltaOf(op) ==
  CASE op = "left" -> <<0, -1>>
    [] op = "right" -> <<0, 1>>
    [] op \in {"fall", "land"} -> <<1, 0>>

\* C13: a move attempt by (dr, dc) succeeds exactly when every cell of the
\* piece shifted by (dr, dc) lies inside the grid and is empty or one of the
\* piece's own cells; on success the anchor changes by (dr, dc) and kind,
\* rotation state and colour stay; sideways moves and the gravity move use the
\* same test.
C13_MoveIffShiftedFree ==
  /\ Running =>
       \A d \in Deltas :
         MoveAgrees(board_, curr_piece_, d[1], d[2],
                    move_piece(board_, curr_piece_, d[1], d[2]))
  /\ last.op \in {"left", "right", "fall", "land"} =>
       LET d == DeltaOf(last.op)
       IN last.ok <=> FreeFor(last.board, last.piece, ShiftedCells(last.piece, d[1], d[2]))
  /\ last.op \in {"left", "right", "fall"} =>
       LET d == DeltaOf(last.op)
       IN curr_piece_ = IF last.ok THEN ShiftedPiece(last.piece, d[1], d[2]) ELSE last.piece

\* a sideways move that succeeded next to locked cells, with the shifted piece
\* entering a cell it held before
C13_Witness ==
  /\ last.op \in {"left", "right"}
  /\ last.ok
  /\ last.spawned >= 2
  /\ piece_cells(curr_piece_) \cap piece_cells(last.piece) # {}
  /\ curr_piece_.location.x # last.piece.location.x

\* the rows spanned by piece p
SpannedRows(p) == {c.y : c \in piece_cells(p)}

\* C14: a line-clear evaluation that finds no full row among the rows spanned
\* by the landed piece leaves every cell of the grid and the score unchanged.
C14_NoFullRowNoChange ==
  (last.op = "land" /\ \A r \in SpannedRows(last.piece) : ~row_full(last.landed, r)) =>
    /\ last.mid = last.landed
    /\ last.mid_score = last.score
    /\ score_ = last.score

\* an evaluation without a full row on a grid that holds locked cells, some of
\* them in a buffer row
C14_Witness ==
  /\ last.op = "land"
  /\ last.lines = {}
  /\ last.spawned >= 2
  /\ last.mid = last.landed
  /\ \E c \in Cols(last.landed) : last.landed[1][c] # 0

SpawnedOk == Spawning /\ pc \in {"tick", "cmd"}

TopRow(p) == SetMin(SpannedRows(p))

\* C15: after a successful spawn the topmost cell of the new piece lies in
\* row 0 of the grid, the top of the buffer rows.
C15_SpawnTopAtRowZero == SpawnedOk => TopRow(curr_piece_) = 0

\* the rows the for loop of the compaction reads or writes: each y, and each
\* source row from that passed the test from >= 0
RECURSIVE compact_rows(_, _, _)
compact_rows(moved, yy, lines) ==
  IF yy < invisible_lines_ + 1 THEN {}
  ELSE LET from == find_from(yy - 1, lines, moved)
       IN {yy} \cup (IF from >= 0 THEN {from} ELSE {})
               \cup compact_rows(IF from >= 0 THEN moved \cup {from} ELSE moved, yy - 1, lines)

\* the rows a line-clear evaluation for landed piece p reads or writes
ClearRows(p, lines) ==
  SpannedRows(p) \cup
    (IF lines = {} THEN {}
     ELSE compact_rows({}, SetMax(lines), lines) \cup {invisible_lines_})

\* the cells the pieces of a hard drop of n steps pass through
DropCells(p, n) == UNION {ShiftedCells(p, k, 0) : k \in 0..n}

\* the positions at which the operation executed last accessed the grid
\* without a bounds test of its own: the cells written by update_piece, read
\* by the overlap test of new_piece, and the rows of the line-clear evaluation
Accessed ==
  CASE last.op \in {"left", "right", "rotate", "fall"} ->
         piece_cells(last.piece) \cup piece_cells(curr_piece_)
    [] last.op = "drop" -> DropCells(last.piece, last.steps)
    [] last.op = "construct" ->
         IF pc = "error" THEN {} ELSE piece_cells(curr_piece_)
    [] last.op = "land" ->
         piece_cells(last.piece)
           \cup {B(r, c) : r \in ClearRows(last.piece, last.lines), c \in 0..(width_ - 1)}
           \cup (IF pc = "error" THEN {} ELSE piece_cells(curr_piece_))
    [] OTHER -> {}

\* C16: every grid position read or written by an operation has its row in
\* 0..board_height_ - 1 and its column in 0..width_ - 1, and the active piece
\* that the next operation will erase and stamp lies inside the grid.
C16_AccessesInRange ==
  /\ \A c \in Accessed : 0 <= c.y /\ c.y < board_height_ /\ 0 <= c.x /\ c.x < width_
  /\ Running => \A c \in piece_cells(curr_piece_) :
                  InGrid(board_, c) /\ ~board_cell(board_, c, 0, 0).killed
  /\ DOMAIN board_ = 0..(board_height_ - 1)
  /\ \A r \in DOMAIN board_ : DOMAIN board_[r] = 0..(width_ - 1)

\* a line-clear evaluation that removed the bottom row, with the landed piece
\* against the right wall, followed by a successful spawn
C16_Witness ==
  /\ last.op = "land"
  /\ pc = "cmd"
  /\ board_height_ - 1 \in last.lines
  /\ \E c \in piece_cells(last.piece) : c.x = width_ - 1 /\ c.y = board_height_ - 1
  /\ 1 \in ClearRows(last.piece, last.lines)

\* the colour tags the program draws: color_d(1, 7)
ColorTags == 1..7

WellFormed(b, p) ==
  /\ p.shape \in 0..6
  /\ p.rotation \in 0..(Len(shapes_[p.shape + 1]) - 1)
  /\ Cardinality(piece_cells(p)) = 4
  /\ p.color \in ColorTags
  /\ \A c \in piece_cells(p) : InGrid(b, c) /\ b[c.y][c.x] = p.color

\* C17: between operations and until game-over the active piece is well
\* formed: its kind is one of the 7 kinds, its rotation index is below the
\* number of rotation states of its kind, its four cells are distinct, inside
\* the grid and hold its colour tag in 1..7; every grid cell holds a value in
\* 0..7.
C17_ActivePieceWellFormed ==
  /\ n_shapes_ = 7
  /\ Running => WellFormed(board_, curr_piece_)
  /\ \A r \in Rows(board_) : \A c \in Cols(board_) : board_[r][c] \in {0} \cup ColorTags

\* a rotation that wrapped from the last rotation state to state 0, with
\* locked cells on the grid
C17_Witness ==
  /\ last.op = "rotate"
  /\ last.ok
  /\ last.piece.rotation > 0
  /\ curr_piece_.rotation = 0
  /\ spawned >= 2
  /\ WellFormed(board_, curr_piece_)

\* the number of non-zero cells of grid b
NonZeroCells(b) == Cardinality({<<r, c>> \in Rows(b) \X Cols(b) : b[r][c] # 0})

\* C18: as long as no spawn has ended in game-over or in an error, the number
\* of non-zero grid cells is 4 x (pieces spawned) - width_ x score_.
C18_CellConservation ==
  Running => NonZeroCells(board_) = 4 * spawned - width_ * score_

\* the k-th piece is the active piece of a running game
ActiveIs(k) == Running /\ spawned = k

\* C19: while tick() keeps being called, whatever commands the player gives,
\* the active piece is eventually locked and followed by a spawn or by the
\* end of the game (for the pieces before the last one of the bounded game).
C19_PieceEventuallyLocked ==
  \A k \in 1..(MaxPieces - 1) : ActiveIs(k) ~> ~ActiveIs(k)

\* grid b with the cells of piece p set to 0 and then the cells of piece q
\* set to the colour of q, nothing else changed
Restamped(b, p, q) ==
  [r \in Rows(b) |-> [c \in Cols(b) |->
     IF B(r, c) \in piece_cells(q) THEN q.color
     ELSE IF B(r, c) \in piece_cells(p) THEN 0
     ELSE b[r][c]]]

\* C20: a successful move or rotation changes only cells of the piece's
\* footprint before or after it: cells it leaves become 0, cells it enters
\* take its colour, every other cell, the score and (for the player's moves
\* and rotations) the tick counter stay as they were.
C20_SuccessfulMoveFrame ==
  /\ (last.op \in {"left", "right", "rotate", "fall"} /\ last.ok) =>
       /\ board_ = Restamped(last.board, last.piece, curr_piece_)
       /\ score_ = last.score
       /\ curr_piece_.color = last.piece.color
  /\ (last.op \in {"left", "right", "rotate"} /\ last.ok) => tick_cnt_ = last.tick
  /\ Running =>
       /\ \A d \in Deltas :
            LET r == move_piece(board_, curr_piece_, d[1], d[2])
            IN r.ok => r.board = Restamped(board_, curr_piece_, r.piece)
       /\ \A ccw \in BOOLEAN :
            LET r == rotate_piece(board_, curr_piece_, ccw)
            IN r.ok => r.board = Restamped(board_, curr_piece_, r.piece)

\* a successful rotation next to locked cells that left a cell and entered
\* another one
C20_Witness ==
  /\ last.op = "rotate"
  /\ last.ok
  /\ last.spawned >= 2
  /\ piece_cells(last.piece) \ piece_cells(curr_piece_) # {}
  /\ piece_cells(curr_piece_) \ piece_cells(last.piece) # {}
  /\ board_ = Restamped(last.board, last.piece, curr_piece_)

\* k rotation attempts in one direction, one after the other, from grid b and
\* piece p; ok tells whether all of them succeeded
RECURSIVE RotateN(_, _, _, _)
RotateNext(r, ccw, k) ==
  IF r.ok THEN RotateN(r.board, r.piece, ccw, k) ELSE r

RotateN(b, p, ccw, k) ==
  IF k = 0 THEN [ok |-> TRUE, board |-> b, piece |-> p]
  ELSE RotateNext(rotate_piece(b, p, ccw), ccw, k - 1)

\* a rotation in direction ccw from (b, p) that gave r is undone by the
\* rotation in the other direction
UndoneByInverse(b, p, ccw, r) ==
  r.ok => RotateNext(r, ~ccw, 1) = [ok |-> TRUE, board |-> b, piece |-> p]

\* C21: when a clockwise rotation succeeds, a counter-clockwise rotation
\* issued right after it succeeds and restores the grid and the piece; for a
\* kind with n rotation states, n successful rotations in one direction in a
\* row return to the starting rotation index.
C21_RotationRoundTrip ==
  /\ Running =>
       \A ccw \in BOOLEAN :
         /\ UndoneByInverse(board_, curr_piece_, ccw,
                            rotate_piece(board_, curr_piece_, ccw))
         /\ LET all == RotateN(board_, curr_piece_, ccw, n_rot_of(curr_piece_.shape))
            IN all.ok => (all.piece = curr_piece_ /\ all.board = board_)
  /\ (last.op = "rotate" /\ last.ok) =>
       rotate_piece(board_, curr_piece_, TRUE) =
         [ok |-> TRUE, board |-> last.board, piece |-> last.piece]

\* a successful rotation of a kind with four rotation states, next to locked
\* cells, in a position where four rotations in a row all succeed
C21_Witness ==
  /\ last.op = "rotate"
  /\ last.ok
  /\ last.spawned >= 2
  /\ n_rot_of(curr_piece_.shape) = 4
  /\ RotateN(board_, curr_piece_, FALSE, 4).ok
  /\ rotate_piece(board_, curr_piece_, TRUE).piece = last.piece

\* the number of rows a piece can descend in a straight line on grid b: the
\* largest n with every shift by 1..n free
StraightDescent(b, p) ==
  SetMax({n \in 0..Cardinality(Rows(b)) :
            \A k \in 1..n : FreeFor(b, p, ShiftedCells(p, k, 0))})

\* the outcome d of a hard drop from grid b and piece p
DropAgrees(b, p, d) ==
  /\ d.steps <= Cardinality(Rows(b)) - 1
  /\ d.steps = StraightDescent(b, p)
  /\ d.piece = ShiftedPiece(p, d.steps, 0)
  /\ d.board = Restamped(b, p, d.piece)
  /\ ~move_piece(d.board, d.piece, 1, 0).ok

\* C22: a hard drop ends after at most board_height_ - 1 successful downward
\* moves, with the piece in the same column and rotation state, at the lowest
\* row it can reach by straight descent: one more downward move fails.
C22_HardDropEndsAtLowestRow ==
  /\ Running => DropAgrees(board_, curr_piece_, hard_drop(board_, curr_piece_, 0))
  /\ last.op = "drop" =>
       /\ last.steps <= board_height_ - 1
       /\ last.steps = StraightDescent(last.board, last.piece)
       /\ curr_piece_ = ShiftedPiece(last.piece, last.steps, 0)
       /\ ~move_piece(board_, curr_piece_, 1, 0).ok

\* a hard drop of two rows or more on a grid that holds locked cells
C22_Witness ==
  /\ last.op = "drop"
  /\ last.steps >= 2
  /\ last.spawned >= 2
  /\ curr_piece_.location.y = last.piece.location.y + last.steps
  /\ curr_piece_.location.x = last.piece.location.x

====
